---- MODULE Spec2Model ----
(***************************************************************************)
(* Model of mesh_utils.py: the command line script that decimates a        *)
(* textured mesh (simplify_textured_mesh / dowsample_mesh), rescales a     *)
(* mesh (resize_mesh) and shows it (display_mesh).  The two libraries      *)
(* (pymeshlab, trimesh) are the environment: every call into them may      *)
(* return or raise, and what they read from a file is chosen when read.    *)
(***************************************************************************)
EXTENDS Integers, Sequences, FiniteSets, TLC

\* ---------------------------------------------------------------- bounds
\* Largest face count a loaded mesh has.
MaxFaces == 8
\* Reduction ratios are the fractions n / RatioDen.
RatioDen == 4
\* Largest --target-faces value tried (the smallest is -1).
MaxTarget == 5
\* Largest bounding-box extent of a loaded mesh (extents are 1..MaxExtent).
MaxExtent == 3
\* Largest --size value tried (the smallest is -1).
MaxSize == 2

\* ------------------------------------------------------- values and helpers
\* Python's None, and a present optional value.
None == <<>>
Some(v) == <<v>>

\* A ratio is a pair <<numerator, denominator>> with denominator > 0.
Ratios == {<<n, RatioDen>> : n \in (-1)..(RatioDen + 1)}
TargetValues == (-1)..MaxTarget
SizeValues == (-1)..MaxSize
Extents == 1..MaxExtent

Abs(x) == IF x < 0 THEN -x ELSE x
Max(a, b) == IF a >= b THEN a ELSE b
Min3(t) == IF t[1] <= t[2] /\ t[1] <= t[3] THEN t[1]
           ELSE IF t[2] <= t[3] THEN t[2] ELSE t[3]

\* Python truthiness of an optional int (None and 0 are falsy).
TruthyInt(o) == o # None /\ o[1] # 0
\* Python truthiness of an optional float given as a ratio (None and 0.0 are falsy).
TruthyRatio(o) == o # None /\ o[1][1] # 0

\* 0 <= r < 1 for a ratio r.
InUnitInterval(r) == 0 <= r[1] /\ r[1] < r[2]

\* Defaults of simplify_textured_mesh; weights and thresholds in tenths.
DefaultParams ==
    [texture_weight |-> 15, preserve_boundary |-> TRUE, boundary_weight |-> 10,
     quality_threshold |-> 3, planar |-> FALSE, optimal_placement |-> TRUE]

\* Keyword arguments a direct caller of simplify_textured_mesh may give.
ParamChoices ==
    { DefaultParams,
      [texture_weight |-> 20, preserve_boundary |-> FALSE, boundary_weight |-> 30,
       quality_threshold |-> 5, planar |-> TRUE, optimal_placement |-> FALSE],
      [texture_weight |-> 5, preserve_boundary |-> TRUE, boundary_weight |-> 50,
       quality_threshold |-> 3, planar |-> TRUE, optimal_placement |-> TRUE] }

NoArgs == [downsample |-> FALSE, size |-> None, target_faces |-> None,
           reduction_ratio |-> None]
\* A trimesh mesh: vertex and face counts, and the three bounding-box extents
\* as the fractions extNum[i] / extDen; loaded keeps what the file held.
MeshOf(nv, nf, e) == [vertices |-> nv, faces |-> nf, extNum |-> e, extDen |-> 1,
                      loaded |-> [vertices |-> nv, faces |-> nf, extents |-> e]]
NoMesh == MeshOf(0, 0, <<0, 0, 0>>)

\* ------------------------------------------------------------------ state
VARIABLES
    pc,              \* position in the script
    entry,           \* entry point in use: "main", "simplify_textured_mesh", "display_mesh"
    args,            \* parsed command line
    input_exists,    \* os.path.exists(input_path)
    output_file,     \* file at the output path: "absent", "stale", "partial", "fresh"
    call,            \* arguments simplify_textured_mesh was called with, None before the call
    target_faces,    \* local of simplify_textured_mesh
    reduction_ratio, \* local of simplify_textured_mesh
    input_faces,     \* local of simplify_textured_mesh
    output_faces,    \* local of simplify_textured_mesh
    calls,           \* calls made into pymeshlab, in order
    tm_calls,        \* calls made into trimesh, in order
    mesh,            \* trimesh mesh of resize_mesh
    scale,           \* local of resize_mesh
    stdout,          \* messages printed, in order
    raised,          \* exceptions raised so far, in order, with the step that raised
    exc,             \* exception being handled
    ret,             \* return value of dowsample_mesh
    propagated       \* exception that left the entry point

vars == <<pc, entry, args, input_exists, output_file, call, target_faces,
          reduction_ratio, input_faces, output_faces, calls, tm_calls, mesh,
          scale, stdout, raised, exc, ret, propagated>>

simplifyLocals == <<call, target_faces, reduction_ratio, input_faces, output_faces>>
resizeLocals == <<mesh, scale>>

Entries == {"main", "simplify_textured_mesh", "display_mesh"}

Init ==
    /\ pc = "start"
    /\ entry \in Entries
    /\ args = NoArgs
    /\ input_exists \in BOOLEAN
    /\ output_file \in {"absent", "stale"}
    /\ call = None
    /\ target_faces = None
    /\ reduction_ratio = None
    /\ input_faces = 0
    /\ output_faces = 0
    /\ calls = <<>>
    /\ tm_calls = <<>>
    /\ mesh = NoMesh
    /\ scale = <<1, 1>>
    /\ stdout = <<>>
    /\ raised = <<>>
    /\ exc = "none"
    /\ ret = None
    /\ propagated = "none"

\* ------------------------------------------------------- exception routing
Raised(step, e) == Append(raised, [step |-> step, type |-> e])

\* An exception raised where no handler encloses the statement.
RaiseUncaught(step, e) ==
    /\ raised' = Raised(step, e)
    /\ exc' = "none"
    /\ propagated' = e
    /\ pc' = "exit"
    /\ UNCHANGED ret

\* Faulty variant: the handler resumes at the save instead of ending the operation.
RaiseInSimplify_Continue(step, e) ==
    /\ raised' = Raised(step, e)
    /\ exc' = "none"
    /\ pc' = "save"
    /\ UNCHANGED <<ret, propagated>>

\* Faulty variant: simplify_textured_mesh without its try block.
RaiseInSimplify_Uncaught(step, e) == RaiseUncaught(step, e)

\* An exception raised inside the try block of simplify_textured_mesh.
RaiseInSimplify(step, e) ==
    /\ raised' = Raised(step, e)
    /\ exc' = e
    /\ pc' = "simplify_except"
    /\ UNCHANGED <<ret, propagated>>

\* True when display_mesh runs inside the try block of dowsample_mesh.
DisplayIsGuarded == entry = "main" /\ args.downsample

\* Faulty variant: a failing display is ignored and the caller carries on.
RaiseInDisplay_Swallowed(step, e) ==
    /\ raised' = Raised(step, e)
    /\ exc' = "none"
    /\ pc' = IF entry = "display_mesh" THEN "exit"
             ELSE IF args.downsample THEN "dowsample_return" ELSE "resize_export"
    /\ UNCHANGED <<ret, propagated>>

\* An exception raised inside display_mesh.
RaiseInDisplay(step, e) ==
    IF DisplayIsGuarded
    THEN /\ raised' = Raised(step, e)
         /\ exc' = e
         /\ pc' = "dowsample_except"
         /\ UNCHANGED <<ret, propagated>>
    ELSE RaiseUncaught(step, e)

NoRaise == UNCHANGED <<raised, exc, ret, propagated>>

\* -------------------------------------------------------------- entry points
\* __main__: parse the command line and dispatch.
ParseArgs ==
    /\ pc = "start"
    /\ entry = "main"
    /\ \E d \in BOOLEAN, s \in {None} \cup {Some(v) : v \in SizeValues},
          tf \in {None} \cup {Some(v) : v \in TargetValues},
          rr \in {None} \cup {Some(r) : r \in Ratios} :
            args' = [downsample |-> d, size |-> s, target_faces |-> tf,
                     reduction_ratio |-> rr]
    /\ pc' = IF args'.downsample THEN "dowsample_mesh" ELSE "resize_mesh"
    /\ UNCHANGED <<entry, input_exists, output_file, simplifyLocals, calls,
                   tm_calls, resizeLocals, stdout>>
    /\ NoRaise

\* A direct call of simplify_textured_mesh with any arguments.
CallSimplify ==
    /\ pc = "start"
    /\ entry = "simplify_textured_mesh"
    /\ \E tf \in {None} \cup {Some(v) : v \in TargetValues},
          rr \in {None} \cup {Some(r) : r \in Ratios},
          p \in ParamChoices, v \in BOOLEAN :
            /\ call' = Some([target_faces |-> tf, reduction_ratio |-> rr,
                             params |-> p, verbose |-> v])
            /\ target_faces' = tf
            /\ reduction_ratio' = rr
    /\ pc' = "validate"
    /\ UNCHANGED <<entry, args, input_exists, output_file, input_faces,
                   output_faces, calls, tm_calls, resizeLocals, stdout>>
    /\ NoRaise

\* A direct call of display_mesh on the path of the output file.
CallDisplay ==
    /\ pc = "start"
    /\ entry = "display_mesh"
    /\ pc' = "display_mesh"
    /\ UNCHANGED <<entry, args, input_exists, output_file, simplifyLocals, calls,
                   tm_calls, resizeLocals, stdout>>
    /\ NoRaise

\* ------------------------------------------------------------ dowsample_mesh
\* Lines 160-167: the guard on the two options, then the call of
\* simplify_textured_mesh with the defaults and verbose=True.
Dowsample ==
    /\ pc = "dowsample_mesh"
    /\ IF ~TruthyInt(args.target_faces) /\ ~TruthyRatio(args.reduction_ratio)
       THEN /\ stdout' = Append(stdout, "parser.error")
            /\ RaiseUncaught("parser.error", "SystemExit")
            /\ UNCHANGED simplifyLocals
       ELSE /\ call' = Some([target_faces |-> args.target_faces,
                             reduction_ratio |-> args.reduction_ratio,
                             params |-> DefaultParams, verbose |-> TRUE])
            /\ target_faces' = args.target_faces
            /\ reduction_ratio' = args.reduction_ratio
            /\ pc' = "validate"
            /\ UNCHANGED <<input_faces, output_faces, stdout>>
            /\ NoRaise
    /\ UNCHANGED <<entry, args, input_exists, output_file, calls, tm_calls,
                   resizeLocals>>

\* Lines 170-174: the handler of dowsample_mesh.
DowsampleExcept ==
    /\ pc = "dowsample_except"
    /\ stdout' = Append(stdout, "Error")
    /\ exc' = "none"
    /\ ret' = Some(1)
    /\ pc' = "exit"
    /\ UNCHANGED <<entry, args, input_exists, output_file, simplifyLocals, calls,
                   tm_calls, resizeLocals, raised, propagated>>

\* Line 176.
DowsampleReturn ==
    /\ pc = "dowsample_return"
    /\ ret' = Some(0)
    /\ pc' = "exit"
    /\ UNCHANGED <<entry, args, input_exists, output_file, simplifyLocals, calls,
                   tm_calls, resizeLocals, stdout, raised, exc, propagated>>

\* ---------------------------------------------------- simplify_textured_mesh
\* Faulty variant: the check that the two options exclude each other is missing.
ValidationError_NoExclusive(tf, rr) ==
    IF tf = None /\ rr = None THEN "either"
    ELSE IF rr # None /\ ~InUnitInterval(rr[1]) THEN "range"
    ELSE "none"

\* Lines 72-79: the message of the ValueError raised, or "none".
ValidationError(tf, rr) ==
    IF tf = None /\ rr = None THEN "either"
    ELSE IF tf # None /\ rr # None THEN "exclusive"
    ELSE IF rr # None /\ ~InUnitInterval(rr[1]) THEN "range"
    ELSE "none"

Validate ==
    /\ pc = "validate"
    /\ IF ValidationError(target_faces, reduction_ratio) # "none"
       THEN RaiseInSimplify("validate", "ValueError")
       ELSE pc' = "check_exists" /\ NoRaise
    /\ UNCHANGED <<entry, args, input_exists, output_file, simplifyLocals, calls,
                   tm_calls, resizeLocals, stdout>>

\* Faulty variant: the existence check is missing.
InputMissing_Never(exists) == FALSE

\* Lines 82-83.
InputMissing(exists) == ~exists

CheckExists ==
    /\ pc = "check_exists"
    /\ IF InputMissing(input_exists)
       THEN RaiseInSimplify("check_exists", "FileNotFoundError")
       ELSE pc' = "create_meshset" /\ NoRaise
    /\ UNCHANGED <<entry, args, input_exists, output_file, simplifyLocals, calls,
                   tm_calls, resizeLocals, stdout>>

\* A call into pymeshlab, as logged.
EngineCall(op, a) == [op |-> op, args |-> a]

Log(out, verbose, msg) == IF verbose THEN Append(out, msg) ELSE out

\* Lines 86-88.
CreateMeshSet ==
    /\ pc = "create_meshset"
    /\ calls' = Append(calls, EngineCall("MeshSet", <<>>))
    /\ \E ok \in BOOLEAN :
         IF ok
         THEN /\ stdout' = Log(stdout, call[1].verbose, "Loading mesh")
              /\ pc' = "load"
              /\ NoRaise
         ELSE /\ RaiseInSimplify("create_meshset", "LibraryError")
              /\ UNCHANGED stdout
    /\ UNCHANGED <<entry, args, input_exists, output_file, simplifyLocals,
                   tm_calls, resizeLocals>>

\* Lines 91-93: the face count is whatever the file holds.
Load ==
    /\ pc = "load"
    /\ calls' = Append(calls, EngineCall("load_new_mesh", <<>>))
    /\ \E ok \in BOOLEAN :
         IF ok
         THEN /\ \E f \in 0..MaxFaces : input_faces' = f
              /\ pc' = "compute_target"
              /\ NoRaise
         ELSE /\ RaiseInSimplify("load", "LibraryError")
              /\ UNCHANGED input_faces
    /\ UNCHANGED <<entry, args, input_exists, output_file, call, target_faces,
                   reduction_ratio, output_faces, tm_calls, resizeLocals, stdout>>

\* Python's int() of the rational n / d: truncation toward zero.
IntTrunc(n, d) == IF n >= 0 THEN n \div d ELSE -((-n) \div d)

\* Line 99: the smallest target face count computed from a ratio.
MinTargetFaces == 4

\* Faulty variant: the lower limit of 4 faces is missing.
TargetFromRatio_NoMinimum(f, r) == IntTrunc(f * (r[2] - r[1]), r[2])

\* Lines 97-99: max(int(input_faces * (1 - reduction_ratio)), 4).
TargetFromRatio(f, r) == Max(IntTrunc(f * (r[2] - r[1]), r[2]), MinTargetFaces)

\* Lines 96-101.
ComputeTarget ==
    /\ pc = "compute_target"
    /\ IF reduction_ratio # None
       THEN /\ target_faces' = Some(TargetFromRatio(input_faces, reduction_ratio[1]))
            /\ stdout' = Log(stdout, call[1].verbose, "Target faces from reduction ratio")
       ELSE UNCHANGED <<target_faces, stdout>>
    /\ pc' = "decimate"
    /\ UNCHANGED <<entry, args, input_exists, output_file, call, reduction_ratio,
                   input_faces, output_faces, calls, tm_calls, resizeLocals>>
    /\ NoRaise

\* Faulty variant: the target face count is clamped and two weights are swapped.
DecimateArgs_Clamped(tf, p) ==
    [targetfacenum |-> Max(tf, MinTargetFaces),
     qualitythr |-> p.quality_threshold,
     extratcoordw |-> p.boundary_weight,
     preserveboundary |-> p.preserve_boundary,
     boundaryweight |-> p.texture_weight,
     optimalplacement |-> p.optimal_placement,
     planarquadric |-> p.planar,
     preservenormal |-> TRUE]

\* Lines 107-116: the keyword arguments of the decimation call.
DecimateArgs(tf, p) ==
    [targetfacenum |-> tf,
     qualitythr |-> p.quality_threshold,
     extratcoordw |-> p.texture_weight,
     preserveboundary |-> p.preserve_boundary,
     boundaryweight |-> p.boundary_weight,
     optimalplacement |-> p.optimal_placement,
     planarquadric |-> p.planar,
     preservenormal |-> TRUE]

\* Lines 104-120: the engine leaves any face count up to the input's.
Decimate ==
    /\ pc = "decimate"
    /\ stdout' = Log(stdout, call[1].verbose, "Start decimation")
    /\ calls' = Append(calls, EngineCall("meshing_decimation_quadric_edge_collapse_with_texture",
                                         DecimateArgs(target_faces[1], call[1].params)))
    /\ \E ok \in BOOLEAN :
         IF ok
         THEN /\ \E f \in 0..input_faces : output_faces' = f
              /\ pc' = "stats"
              /\ NoRaise
         ELSE /\ RaiseInSimplify("decimate", "LibraryError")
              /\ UNCHANGED output_faces
    /\ UNCHANGED <<entry, args, input_exists, output_file, call, target_faces,
                   reduction_ratio, input_faces, tm_calls, resizeLocals>>

\* Line 121: 1 - output_faces / input_faces, a ZeroDivisionError on an empty mesh.
Stats ==
    /\ pc = "stats"
    /\ IF input_faces = 0
       THEN /\ RaiseInSimplify("stats", "ZeroDivisionError")
            /\ UNCHANGED reduction_ratio
       ELSE /\ reduction_ratio' = Some(<<input_faces - output_faces, input_faces>>)
            /\ pc' = "save"
            /\ NoRaise
    /\ UNCHANGED <<entry, args, input_exists, output_file, call, target_faces,
                   input_faces, output_faces, calls, tm_calls, resizeLocals, stdout>>

\* Lines 124-126: a failed save may leave a partial file behind.
Save ==
    /\ pc = "save"
    /\ stdout' = Log(stdout, call[1].verbose, "Saving to")
    /\ calls' = Append(calls, EngineCall("save_current_mesh", <<>>))
    /\ \E ok \in BOOLEAN :
         IF ok
         THEN /\ output_file' = "fresh"
              /\ pc' = "simplify_done"
              /\ NoRaise
         ELSE /\ output_file' \in {output_file, "partial"}
              /\ RaiseInSimplify("save", "LibraryError")
    /\ UNCHANGED <<entry, args, input_exists, simplifyLocals, tm_calls,
                   resizeLocals>>

\* Where control goes when simplify_textured_mesh returns (line 169 or the caller).
SimplifyReturnsTo == IF entry = "main" THEN "display_mesh" ELSE "exit"

\* Lines 128-129.
SimplifyDone ==
    /\ pc = "simplify_done"
    /\ stdout' = Log(stdout, call[1].verbose, "Done")
    /\ pc' = SimplifyReturnsTo
    /\ UNCHANGED <<entry, args, input_exists, output_file, simplifyLocals, calls,
                   tm_calls, resizeLocals>>
    /\ NoRaise

\* Lines 130-132: the handler swallows the exception.
SimplifyExcept ==
    /\ pc = "simplify_except"
    /\ stdout' = Log(stdout, call[1].verbose, "Failed")
    /\ exc' = "none"
    /\ pc' = SimplifyReturnsTo
    /\ UNCHANGED <<entry, args, input_exists, output_file, simplifyLocals, calls,
                   tm_calls, resizeLocals, raised, ret, propagated>>

\* ------------------------------------------------------------- display_mesh
\* resize_mesh passes a Trimesh object, the other callers a path.
MeshIsStr == ~(entry = "main" /\ ~args.downsample)

\* Lines 143-144.
DisplayLoad ==
    /\ pc = "display_mesh"
    /\ IF MeshIsStr
       THEN /\ tm_calls' = Append(tm_calls, "load_output")
            /\ \E ok \in BOOLEAN :
                 IF ok /\ output_file # "absent"
                 THEN pc' = "display_show" /\ NoRaise
                 ELSE RaiseInDisplay("display_load", "LibraryError")
       ELSE /\ pc' = "display_show"
            /\ UNCHANGED tm_calls
            /\ NoRaise
    /\ UNCHANGED <<entry, args, input_exists, output_file, simplifyLocals, calls,
                   resizeLocals, stdout>>

\* Where control goes when display_mesh returns.
DisplayReturnsTo ==
    IF entry = "display_mesh" THEN "exit"
    ELSE IF args.downsample THEN "dowsample_return"
    ELSE "resize_export"

\* Lines 146-156.
DisplayShow ==
    /\ pc = "display_show"
    /\ tm_calls' = Append(tm_calls, "show")
    /\ \E ok \in BOOLEAN :
         IF ok
         THEN pc' = DisplayReturnsTo /\ NoRaise
         ELSE RaiseInDisplay("display_show", "LibraryError")
    /\ UNCHANGED <<entry, args, input_exists, output_file, simplifyLocals, calls,
                   resizeLocals, stdout>>

\* -------------------------------------------------------------- resize_mesh
\* Lines 183-189: load the input and read its bounding box.
ResizeLoad ==
    /\ pc = "resize_mesh"
    /\ tm_calls' = Append(tm_calls, "load_input")
    /\ \E ok \in BOOLEAN :
         IF ok /\ input_exists
         THEN /\ \E e \in Extents \X Extents \X Extents, nv \in {3, 4}, nf \in {1, 2} :
                   mesh' = MeshOf(nv, nf, e)
              /\ stdout' = Append(stdout, "original info")
              /\ pc' = "resize_scale"
              /\ NoRaise
         ELSE /\ RaiseUncaught("resize_load", "LibraryError")
              /\ UNCHANGED <<mesh, stdout>>
    /\ UNCHANGED <<entry, args, input_exists, output_file, simplifyLocals, calls,
                   scale>>

\* Faulty variant: the quotient is taken the wrong way round.
ScaleFor_Inverted(size, model_size) ==
    IF TruthyInt(size) THEN <<model_size, Abs(size[1])>> ELSE <<1, 1>>

\* Line 190: (args.size / model_size) if args.size else 1.0, as a ratio.
ScaleFor(size, model_size) ==
    IF TruthyInt(size) THEN <<size[1], model_size>> ELSE <<1, 1>>

\* mesh.apply_scale: every extent is multiplied by the magnitude of the scale.
ApplyScale(m, sc) ==
    [m EXCEPT !.extNum = [i \in 1..3 |-> m.extNum[i] * Abs(sc[1])],
              !.extDen = m.extDen * sc[2]]

\* Lines 190-195.
ResizeScale ==
    /\ pc = "resize_scale"
    /\ scale' = ScaleFor(args.size, Min3(mesh.extNum))
    /\ tm_calls' = Append(tm_calls, "apply_scale")
    /\ \E ok \in BOOLEAN :
         IF ok
         THEN /\ mesh' = ApplyScale(mesh, scale')
              /\ stdout' = Append(stdout, "resized mesh info")
              /\ pc' = "display_mesh"
              /\ NoRaise
         ELSE /\ RaiseUncaught("resize_scale", "LibraryError")
              /\ UNCHANGED <<mesh, stdout>>
    /\ UNCHANGED <<entry, args, input_exists, output_file, simplifyLocals, calls>>

\* Line 197: a failed export may leave a partial file behind.
ResizeExport ==
    /\ pc = "resize_export"
    /\ tm_calls' = Append(tm_calls, "export")
    /\ \E ok \in BOOLEAN :
         IF ok
         THEN /\ output_file' = "fresh"
              /\ pc' = "exit"
              /\ NoRaise
         ELSE /\ output_file' \in {output_file, "partial"}
              /\ RaiseUncaught("resize_export", "LibraryError")
    /\ UNCHANGED <<entry, args, input_exists, simplifyLocals, calls, resizeLocals,
                   stdout>>

\* ---------------------------------------------------------------- behaviour
Next ==
    \/ ParseArgs
    \/ CallSimplify
    \/ CallDisplay
    \/ Dowsample
    \/ DowsampleExcept
    \/ DowsampleReturn
    \/ Validate
    \/ CheckExists
    \/ CreateMeshSet
    \/ Load
    \/ ComputeTarget
    \/ Decimate
    \/ Stats
    \/ Save
    \/ SimplifyDone
    \/ SimplifyExcept
    \/ DisplayLoad
    \/ DisplayShow
    \/ ResizeLoad
    \/ ResizeScale
    \/ ResizeExport

Spec == Init /\ [][Next]_vars

TypeOK ==
    /\ entry \in Entries
    /\ output_file \in {"absent", "stale", "partial", "fresh"}
    /\ ret \in {None, Some(0), Some(1)}
    /\ input_faces \in 0..MaxFaces
    /\ output_faces \in 0..input_faces

\* --------------------------------------------------------------- properties
RaisedAt(step) == \E i \in DOMAIN raised : raised[i].step = step
RaisedTypeAt(step, e) == \E i \in DOMAIN raised : raised[i] = [step |-> step, type |-> e]
SeqHas(q, x) == \E i \in DOMAIN q : q[i] = x
Count(q, x) == Cardinality({i \in DOMAIN q : q[i] = x})

DecimateOp == "meshing_decimation_quadric_edge_collapse_with_texture"
DecimateCalls == {i \in DOMAIN calls : calls[i].op = DecimateOp}
EngineOrder == <<"MeshSet", "load_new_mesh", DecimateOp, "save_current_mesh">>

\* Steps inside the try block of simplify_textured_mesh, with the number of
\* engine calls made once the step has raised.
CallsMadeAt ==
    [s \in {"validate", "check_exists", "create_meshset", "load", "decimate",
            "stats", "save"} |->
        CASE s \in {"validate", "check_exists"} -> 0
          [] s = "create_meshset" -> 1
          [] s = "load" -> 2
          [] s \in {"decimate", "stats"} -> 3
          [] OTHER -> 4]
SimplifySteps == DOMAIN CallsMadeAt
DisplaySteps == {"display_load", "display_show"}
ResizeSteps == {"resize_load", "resize_scale", "resize_export"}
RaisedIn(steps) == \E i \in DOMAIN raised : raised[i].step \in steps

Written == output_file \in {"partial", "fresh"}
OnDownsample == entry = "main" /\ args.downsample
OnResize == entry = "main" /\ pc # "start" /\ ~args.downsample

\* Exactly one of the two options is given and a given ratio lies in [0, 1).
ValidArgs(c) ==
    /\ (c.target_faces = None) # (c.reduction_ratio = None)
    /\ c.reduction_ratio # None => InUnitInterval(c.reduction_ratio[1])

\* C1: a call of simplify_textured_mesh that gives both or neither of
\* target_faces and reduction_ratio fails validation with a ValueError and
\* makes no call into the mesh engine, whatever the other arguments and
\* whether or not the input file exists.
C1_ExactlyOneRequired ==
    (call # None /\ ((call[1].target_faces = None) = (call[1].reduction_ratio = None)))
        => /\ calls = <<>>
           /\ pc # "validate" => RaisedTypeAt("validate", "ValueError")

C1_Witness ==
    /\ call # None
    /\ call[1].target_faces # None
    /\ call[1].reduction_ratio # None
    /\ InUnitInterval(call[1].reduction_ratio[1])
    /\ input_exists
    /\ RaisedTypeAt("validate", "ValueError")
    /\ pc = "exit"

\* C2 (as claimed): on the downsample path, with an existing input, no
\* --target-faces and a --reduction-ratio r, the run gets past validation to
\* the mesh engine if and only if 0 <= r < 1, r = 0 included.
C2_RatioAcceptedIffInRange ==
    (/\ pc = "exit"
     /\ OnDownsample
     /\ input_exists
     /\ args.target_faces = None
     /\ args.reduction_ratio # None)
        => (calls # <<>> <=> InUnitInterval(args.reduction_ratio[1]))

\* C3: when the arguments pass validation and the input path does not exist,
\* simplify_textured_mesh raises FileNotFoundError before the MeshSet is
\* created: no engine call is made and nothing is written to the output path.
C3_MissingInputStopsBeforeEngine ==
    (/\ call # None
     /\ ValidArgs(call[1])
     /\ ~input_exists
     /\ pc \notin {"validate", "check_exists"})
        => /\ calls = <<>>
           /\ RaisedTypeAt("check_exists", "FileNotFoundError")
           /\ ~Written

C3_Witness ==
    /\ call # None
    /\ ValidArgs(call[1])
    /\ ~input_exists
    /\ RaisedTypeAt("check_exists", "FileNotFoundError")
    /\ output_file = "stale"
    /\ pc = "exit"

\* C4 (as claimed): whenever a step inside one of the three operations raises,
\* the exception is caught inside the operation, a message is printed and
\* nothing propagates to the caller.
C4_AllExceptionsCaught ==
    (pc = "exit" /\ RaisedIn(SimplifySteps \cup DisplaySteps \cup ResizeSteps))
        => /\ propagated = "none"
           /\ SeqHas(stdout, "Failed") \/ SeqHas(stdout, "Error")

\* C4 (amended): only the decimation path catches.  An exception raised inside
\* simplify_textured_mesh is caught there and never propagates, and "Failed" is
\* printed exactly when verbose is set; an exception raised by display_mesh
\* under dowsample_mesh is caught by dowsample_mesh, printed, and 1 is
\* returned.  An exception raised in resize_mesh or in a direct display_mesh
\* propagates to the caller and the operation prints no error message.
C4_CaughtOnlyOnDecimationPath ==
    pc = "exit" =>
        /\ call # None =>
              /\ propagated = "none"
              /\ call[1].verbose => (RaisedIn(SimplifySteps) <=> SeqHas(stdout, "Failed"))
              /\ ~call[1].verbose => stdout = <<>>
              /\ RaisedIn(DisplaySteps) => SeqHas(stdout, "Error") /\ ret = Some(1)
        /\ ((OnResize \/ entry = "display_mesh") /\ raised # <<>>) =>
              /\ propagated = raised[Len(raised)].type
              /\ propagated # "none"
              /\ ~SeqHas(stdout, "Failed")
              /\ ~SeqHas(stdout, "Error")

C4_Witness ==
    /\ pc = "exit"
    /\ OnDownsample
    /\ RaisedAt("decimate")
    /\ RaisedAt("display_show")
    /\ ret = Some(1)

\* C5 (as claimed): dowsample_mesh returns 0 only if the mesh was decimated and
\* saved in this invocation and then displayed, and returns 1 whenever
\* validation, loading, decimation, saving or display failed.
C5_ReturnReflectsOutcome ==
    (pc = "exit" /\ OnDownsample) =>
        /\ ret = Some(0) => /\ Len(calls) = 4
                            /\ output_file = "fresh"
                            /\ ~RaisedIn(SimplifySteps \cup DisplaySteps)
                            /\ SeqHas(tm_calls, "show")
        /\ RaisedIn(SimplifySteps \cup DisplaySteps) => ret = Some(1)

\* C6: the mesh engine is driven in the order create, load, decimate, save,
\* each at most once; a step is reached only when the one before returned,
\* once a step of simplify_textured_mesh has raised no later engine call is
\* made, and the output path is written only after a completed decimation.
C6_FixedEngineOrder ==
    /\ Len(calls) <= Len(EngineOrder)
    /\ \A i \in DOMAIN calls : calls[i].op = EngineOrder[i]
    /\ \A i \in DOMAIN raised :
          raised[i].step \in SimplifySteps => Len(calls) = CallsMadeAt[raised[i].step]
    /\ (call # None /\ Written) =>
          /\ Len(calls) = Len(EngineOrder)
          /\ ~RaisedIn(SimplifySteps \ {"save"})

C6_Witness ==
    /\ call # None
    /\ Len(calls) = Len(EngineOrder)
    /\ output_file = "fresh"
    /\ raised = <<>>
    /\ pc = "exit"

\* C7: the decimation call receives the caller's texture_weight,
\* boundary_weight, quality_threshold, optimal_placement, preserve_boundary and
\* planar unchanged, and a caller-given target_faces unchanged for every
\* integer, with no clamping.
C7_ParametersPassedThrough ==
    \A i \in DecimateCalls :
        LET a == calls[i].args
            c == call[1]
        IN /\ a.extratcoordw = c.params.texture_weight
           /\ a.boundaryweight = c.params.boundary_weight
           /\ a.qualitythr = c.params.quality_threshold
           /\ a.optimalplacement = c.params.optimal_placement
           /\ a.preserveboundary = c.params.preserve_boundary
           /\ a.planarquadric = c.params.planar
           /\ c.target_faces # None => a.targetfacenum = c.target_faces[1]

C7_Witness ==
    \E i \in DecimateCalls :
        /\ call[1].target_faces = Some(-1)
        /\ call[1].params # DefaultParams
        /\ calls[i].args.targetfacenum = -1
        /\ calls[i].args.extratcoordw = call[1].params.texture_weight

\* q is the integer part of f * (1 - r).
IsFloorOfKept(q, f, r) ==
    /\ q * r[2] <= f * (r[2] - r[1])
    /\ f * (r[2] - r[1]) < (q + 1) * r[2]

\* C8 (as claimed): with a reduction ratio r the target face count given to the
\* decimation call is max(floor(F * (1 - r)), 4), never below 4 and never above
\* the input face count F.
C8_TargetWithinInput ==
    \A i \in DecimateCalls :
        call[1].reduction_ratio # None =>
            LET t == calls[i].args.targetfacenum
                r == call[1].reduction_ratio[1]
            IN /\ \E q \in 0..input_faces :
                     IsFloorOfKept(q, input_faces, r) /\ t = (IF q >= 4 THEN q ELSE 4)
               /\ t >= 4
               /\ t <= input_faces

\* C8 (amended): the target is max(floor(F * (1 - r)), 4), never below 4, and
\* never above F when F >= 4; for a mesh of fewer than 4 faces it is 4.
C8_TargetFromRatio ==
    \A i \in DecimateCalls :
        call[1].reduction_ratio # None =>
            LET t == calls[i].args.targetfacenum
                r == call[1].reduction_ratio[1]
            IN /\ \E q \in 0..input_faces :
                     IsFloorOfKept(q, input_faces, r) /\ t = (IF q >= 4 THEN q ELSE 4)
               /\ t >= 4
               /\ input_faces >= 4 => t <= input_faces
               /\ input_faces < 4 => t = 4

C8_Witness ==
    \E i \in DecimateCalls :
        /\ call[1].reduction_ratio = Some(<<1, RatioDen>>)
        /\ input_faces = 7
        /\ calls[i].args.targetfacenum = (7 * (RatioDen - 1)) \div RatioDen

\* The mesh of resize_mesh has been scaled.
Scaled == OnResize /\ SeqHas(tm_calls, "apply_scale") /\ ~RaisedAt("resize_scale")
CountsKept ==
    mesh.vertices = mesh.loaded.vertices /\ mesh.faces = mesh.loaded.faces
ProportionsKept ==
    \A i, j \in 1..3 :
        mesh.extNum[i] * mesh.loaded.extents[j] = mesh.extNum[j] * mesh.loaded.extents[i]
DimensionsKept ==
    \A i \in 1..3 : mesh.extNum[i] = mesh.loaded.extents[i] * mesh.extDen

\* C9 (as claimed): for every --size s the scale applied is s / m, m the
\* smallest extent, so the smallest extent becomes s with the proportions and
\* the vertex and face counts unchanged; without --size the scale is 1.
C9_SmallestExtentBecomesSize ==
    Scaled =>
        /\ CountsKept
        /\ args.size # None =>
              /\ scale[1] * Min3(mesh.loaded.extents) = args.size[1] * scale[2]
              /\ Min3(mesh.extNum) = args.size[1] * mesh.extDen
              /\ ProportionsKept
        /\ args.size = None => scale[1] = scale[2] /\ DimensionsKept

\* C9 (amended): for every --size s other than 0 the scale applied is s / m and
\* the smallest extent becomes |s|, with the proportions and the vertex and
\* face counts unchanged; without --size, or with --size 0, the scale is 1 and
\* the dimensions are unchanged.
C9_NonzeroSizeScales ==
    Scaled =>
        /\ CountsKept
        /\ (args.size # None /\ args.size # Some(0)) =>
              /\ scale[1] * Min3(mesh.loaded.extents) = args.size[1] * scale[2]
              /\ Min3(mesh.extNum) = Abs(args.size[1]) * mesh.extDen
              /\ ProportionsKept
        /\ (args.size = None \/ args.size = Some(0)) =>
              scale[1] = scale[2] /\ DimensionsKept

C9_Witness ==
    /\ Scaled
    /\ args.size = Some(2)
    /\ mesh.loaded.extents = <<3, 2, 3>>
    /\ mesh.extNum = <<6, 4, 6>>
    /\ mesh.extDen = 2
    /\ output_file = "fresh"
    /\ pc = "exit"

\* C10: resize_mesh runs load, scale, display, export in that order; when the
\* load, the scaling or display_mesh raises, export is never called, no output
\* is written and the exception leaves resize_mesh; when they all return the
\* export is made exactly once.
C10_ExportOnlyAfterDisplay ==
    OnResize =>
        /\ Count(tm_calls, "export") <= 1
        /\ SeqHas(tm_calls, "export") =>
              /\ tm_calls = <<"load_input", "apply_scale", "show", "export">>
              /\ ~RaisedIn({"resize_load", "resize_scale"} \cup DisplaySteps)
        /\ RaisedIn({"resize_load", "resize_scale"} \cup DisplaySteps) =>
              /\ ~SeqHas(tm_calls, "export")
              /\ ~Written
              /\ pc = "exit"
              /\ propagated = raised[Len(raised)].type
              /\ propagated # "none"
        /\ (pc = "exit" /\ ~RaisedIn({"resize_load", "resize_scale"} \cup DisplaySteps)) =>
              Count(tm_calls, "export") = 1

C10_Witness ==
    /\ OnResize
    /\ RaisedAt("display_show")
    /\ tm_calls = <<"load_input", "apply_scale", "show">>
    /\ propagated = "LibraryError"
    /\ pc = "exit"
====
